---------------------------- MODULE Spec2Model ----------------------------
(***************************************************************************)
(* Model of the analytics rollups of the salon backend (main.py):          *)
(* analytics_summary and admin_metrics over the document store, together   *)
(* with the handlers that write the documents they read                    *)
(* (create_transaction, create_booking, create_client,                     *)
(* complete_onboarding).                                                    *)
(*                                                                         *)
(* Time is a count of ticks since EpochYear-01-01 00:00:00 UTC, with       *)
(* TicksPerDay ticks in a day.  Amounts are integers (currency units).     *)
(* A period token is the sequence of its characters, so that               *)
(* int(period.replace("d", "")) is computed and not assumed.               *)
(***************************************************************************)
EXTENDS Integers, Sequences, FiniteSets, TLC

VARIABLES now, db, resp

vars == <<now, db, resp>>

\* ------------------------------------------------------------------ bounds

\* Resolution of the clock: ticks in one day.
TicksPerDay == 2

\* The year whose 1 January 00:00 UTC is tick 0.
EpochYear == 2024

\* The first clock reading is StartDay days after the epoch, plus one tick.
StartDay == 74

\* How many documents the handlers may write in all.
MaxDocs == 2

\* The last day the clock sweep of SpecWindow reaches.
MaxSweepDay == 1500

\* How many subscriptions the store of SpecFleet holds at the start.
MaxSubscriptions == 3

\* ------------------------------------------------------------------ inputs

None == "<None>"

\* salon_id of a request body: any str, the empty string included.
SalonIds == {"", "s1", "s2"}

\* salon_id of the query string of /analytics/summary: absent or any str.
SalonArgs == SalonIds \cup {None}

\* client_id of a booking: Optional[str].
ClientIds == {None, "c1"}

\* amount of a transaction body: float, no constraint in TransactionCreate.
Amounts == {-50, 100}

TransactionStatuses == {"pending", "succeeded", "failed", "refunded"}

SubscriptionStatuses == {"trial", "active", "past_due", "canceled"}

P7d == <<"7", "d">>

P30d == <<"3", "0", "d">>

P90d == <<"9", "0", "d">>

Pmtd == <<"m", "t", "d">>

\* Query(..., pattern="^(7d|30d|90d|mtd)$")
Periods == {P7d, P30d, P90d, Pmtd}

\* The clock is read at these days after the first reading.
ClockDays == {0, 1, 7}

\* The same for the runs about revenue: 7 and 30 days lie between readings.
RevenueClockDays == {0, 7, 37}

\* start_time of a booking body, in days from the time of the request.
StartOffsetDays == {0, 1}

\* ------------------------------------------------------------------ time

timedelta(days) == days * TicksPerDay

IsLeap(y) == (y % 4 = 0 /\ y % 100 # 0) \/ y % 400 = 0

DaysInMonth(y, m) ==
    CASE m \in {4, 6, 9, 11} -> 30
      [] m = 2 -> IF IsLeap(y) THEN 29 ELSE 28
      [] OTHER -> 31

RECURSIVE DateWalk(_, _, _)
DateWalk(y, m, rem) ==
    IF rem < DaysInMonth(y, m)
    THEN [year |-> y, month |-> m, day |-> rem + 1]
    ELSE IF m = 12
         THEN DateWalk(y + 1, 1, rem - DaysInMonth(y, m))
         ELSE DateWalk(y, m + 1, rem - DaysInMonth(y, m))

\* The fields of a datetime: year, month, day and the ticks since midnight.
DateOf(t) ==
    LET d == DateWalk(EpochYear, 1, t \div TicksPerDay)
    IN [year |-> d.year, month |-> d.month, day |-> d.day, tod |-> t % TicksPerDay]

RECURSIVE DaysBefore(_, _)
\* Days from the epoch to the first day of month m of year y.
DaysBefore(y, m) ==
    IF y = EpochYear /\ m = 1 THEN 0
    ELSE IF m = 1
         THEN DaysBefore(y - 1, 12) + DaysInMonth(y - 1, 12)
         ELSE DaysBefore(y, m - 1) + DaysInMonth(y, m - 1)

\* datetime(year, month, day, tzinfo=timezone.utc): midnight of that day.
datetime(y, m, d) == (DaysBefore(y, m) + (d - 1)) * TicksPerDay

\* ------------------------------------------------------------------ period token

\* str.replace(old, ""), old one character.
StrRemove(s, old) == SelectSeq(s, LAMBDA c : c # old)

DigitValue(c) ==
    CASE c = "0" -> 0 [] c = "1" -> 1 [] c = "2" -> 2 [] c = "3" -> 3
      [] c = "4" -> 4 [] c = "5" -> 5 [] c = "6" -> 6 [] c = "7" -> 7
      [] c = "8" -> 8 [] c = "9" -> 9

RECURSIVE ParseInt(_)
\* int(s) of a string of decimal digits.
ParseInt(s) ==
    IF Len(s) = 0 THEN 0
    ELSE ParseInt(SubSeq(s, 1, Len(s) - 1)) * 10 + DigitValue(s[Len(s)])

\* WindowStart reading only the first digit of the token: int(period[0]).
WindowStartFirstDigit(period, t) ==
    IF period = Pmtd
    THEN datetime(DateOf(t).year, DateOf(t).month, 1)
    ELSE t - timedelta(DigitValue(period[1]))

\* analytics_summary, lines 392-397: the start of the window.
WindowStart(period, t) ==
    IF period = Pmtd
    THEN datetime(DateOf(t).year, DateOf(t).month, 1)
    ELSE t - timedelta(ParseInt(StrRemove(period, "d")))


\* ------------------------------------------------------------------ document store

Range(s) == {s[i] : i \in DOMAIN s}

\* A filter document: equality, $gte and $in conditions, each keyed by field.
Matches(doc, q) ==
    /\ \A f \in DOMAIN q.eq : f \in DOMAIN doc /\ doc[f] = q.eq[f]
    /\ \A f \in DOMAIN q.gte : f \in DOMAIN doc /\ doc[f] >= q.gte[f]
    /\ \A f \in DOMAIN q.isin : f \in DOMAIN doc /\ doc[f] \in q.isin[f]

\* collection.find(filter): the matching documents, in the collection's order.
find(coll, q) == SelectSeq(coll, LAMBDA d : Matches(d, q))

\* collection.count_documents(filter)
count_documents(coll, q) == Len(find(coll, q))

\* collection.distinct(field, filter)
distinct(coll, field, q) == {d[field] : d \in Range(find(coll, q))}

\* dict.get(key, default)
Get(doc, key, default) == IF key \in DOMAIN doc THEN doc[key] ELSE default

\* The truth value of an Optional[str]: None and "" are false.
Truthy(s) == s # None /\ s # ""

\* create_document(collection, model): the document is stored with the time
\* of its creation.
create_document(coll, data, t) ==
    Append(coll, [f \in DOMAIN data \cup {"created_at"} |->
                     IF f = "created_at" THEN t ELSE data[f]])

\* str(ObjectId) of the n-th salon.
ObjectIdStr(n) ==
    CASE n = 1 -> "s1" [] n = 2 -> "s2" [] n = 3 -> "s3" [] n = 4 -> "s4"
      [] OTHER -> "s5"

DocCount(d) ==
    Len(d.transaction) + Len(d.booking) + Len(d.client) + Len(d.salon)

\* The first reading of the clock: 12 hours into day StartDay.
StartTick == timedelta(StartDay) + TicksPerDay \div 2

\* _now(), lines 43-44: a reading of the clock, which never runs backwards.
\* The readings are StartTick plus a number of days of the set days.
ClockReads(t, days) == {u \in {StartTick + timedelta(d) : d \in days} : u >= t}

Idle == [op |-> "none", outcome |-> "ok"]

ServerError == [status_code |-> 500]

\* ------------------------------------------------------------------ writing handlers
\* A handler runs to completion, one request at a time: it reads the clock
\* (t, its reading of _now()), and its response is resp until the caller has
\* it.

\* create_transaction, lines 375-379.  Transaction(...) validates status
\* against its Literal; a body it rejects is answered with an error and
\* nothing is written.  The timestamp is _now().
create_transaction(salon_id, amount, status, t) ==
    /\ resp = Idle
    /\ DocCount(db) < MaxDocs
    /\ t >= now
    /\ now' = t
    /\ IF status \in TransactionStatuses
       THEN /\ db' = [db EXCEPT !.transaction = create_document(@,
                  [salon_id |-> salon_id, amount |-> amount,
                   status |-> status, timestamp |-> t], t)]
            /\ resp' = [op |-> "create_transaction", outcome |-> "ok"]
       ELSE /\ db' = db
            /\ resp' = [op |-> "create_transaction", outcome |-> "error"]

\* create_booking, lines 277-281.  start_time is whatever the body gives:
\* offset days from the time of the request.
create_booking(salon_id, client_id, offset, t) ==
    /\ resp = Idle
    /\ DocCount(db) < MaxDocs
    /\ t >= now
    /\ now' = t
    /\ db' = [db EXCEPT !.booking = create_document(@,
          [salon_id |-> salon_id, client_id |-> client_id,
           start_time |-> t + timedelta(offset), status |-> "confirmed"], t)]
    /\ resp' = [op |-> "create_booking", outcome |-> "ok"]

\* create_client, lines 231-234.
create_client(salon_id, t) ==
    /\ resp = Idle
    /\ DocCount(db) < MaxDocs
    /\ t >= now
    /\ now' = t
    /\ db' = [db EXCEPT !.client = create_document(@, [salon_id |-> salon_id], t)]
    /\ resp' = [op |-> "create_client", outcome |-> "ok"]

\* complete_onboarding, lines 194-217: a salon and its trial subscription
\* (mrr 0).  token_ok: the verification token is known and has not expired.
complete_onboarding(token_ok, t) ==
    /\ resp = Idle
    /\ DocCount(db) < MaxDocs
    /\ t >= now
    /\ now' = t
    /\ IF token_ok
       THEN /\ db' = [db EXCEPT
                  !.salon = create_document(@, [plan |-> "trial"], t),
                  !.subscription = create_document(@,
                      [salon_id |-> ObjectIdStr(Len(db.salon) + 1),
                       status |-> "trial", mrr |-> 0], t)]
            /\ resp' = [op |-> "complete_onboarding", outcome |-> "ok"]
       ELSE /\ db' = db
            /\ resp' = [op |-> "complete_onboarding", outcome |-> "error"]

\* The response has reached the caller.
deliver ==
    /\ resp # Idle
    /\ resp' = Idle
    /\ UNCHANGED <<now, db>>

\* ------------------------------------------------------------------ analytics_summary

SummaryQueries ==
    {"transaction.find", "booking.count_documents", "client.count_documents",
     "booking.aggregate"}

\* The queries of one request that raise (the store is unreachable, the
\* aggregation engine errors): none, any one of them, or all of them.
SummaryFailures == {{}} \cup {{q} : q \in SummaryQueries} \cup {SummaryQueries}

\* ScopedMatch without the tenant condition.
ScopedMatchAllTenants(time_field, start, salon_id) ==
    [eq |-> <<>>, gte |-> (time_field :> start), isin |-> <<>>]

\* Lines 399-401, 410-412, 416-418, 424: the time condition on the
\* collection's time field, and the tenant condition when salon_id is truthy.
ScopedMatch(time_field, start, salon_id) ==
    [eq |-> IF Truthy(salon_id) THEN [salon_id |-> salon_id] ELSE <<>>,
     gte |-> (time_field :> start),
     isin |-> <<>>]

RECURSIVE SumRevenueAnyStatus(_)
\* SumRevenue without the test of line 406: every status is summed.
SumRevenueAnyStatus(docs) ==
    IF docs = <<>> THEN 0
    ELSE Get(Head(docs), "amount", 0) + SumRevenueAnyStatus(Tail(docs))

RECURSIVE SumRevenue(_)
\* Lines 404-407: the loop over the transactions found.
SumRevenue(docs) ==
    IF docs = <<>> THEN 0
    ELSE (IF Get(Head(docs), "status", None) = "succeeded"
          THEN Get(Head(docs), "amount", 0)
          ELSE 0) + SumRevenue(Tail(docs))

\* Lines 403-407.  raised: the query raised, and nothing catches it.
Revenue(d, start, salon_id, fails) ==
    [raised |-> "transaction.find" \in fails,
     value |-> SumRevenue(find(d.transaction,
                               ScopedMatch("timestamp", start, salon_id)))]

\* Lines 409-413.
TotalBookings(d, start, salon_id, fails) ==
    [raised |-> "booking.count_documents" \in fails,
     value |-> count_documents(d.booking, ScopedMatch("created_at", start, salon_id))]

\* NewClients with its query in a try/except that answers 0.
NewClientsSwallowed(d, start, salon_id, fails) ==
    [raised |-> FALSE,
     value |-> IF "client.count_documents" \in fails THEN 0
               ELSE count_documents(d.client,
                                    ScopedMatch("created_at", start, salon_id))]

\* Lines 415-419.
NewClients(d, start, salon_id, fails) ==
    [raised |-> "client.count_documents" \in fails,
     value |-> count_documents(d.client, ScopedMatch("created_at", start, salon_id))]

\* The pipeline of lines 423-428 on collection coll: $match q, $group by
\* group_field counting each group's documents (an absent or null field is
\* the group null), $match cnt > min_cnt, $count as rc.  $count yields no
\* document when no group is left.
aggregate(coll, q, group_field, min_cnt) ==
    LET matched == find(coll, q)
        groups == {Get(doc, group_field, None) : doc \in Range(matched)}
        cnt(g) == Cardinality({i \in DOMAIN matched :
                                 Get(matched[i], group_field, None) = g})
        kept == {g \in groups : cnt(g) > min_cnt}
    IN IF kept = {} THEN <<>> ELSE <<[rc |-> Cardinality(kept)]>>

\* ReturningClients without the try/except: the failure is not caught.
ReturningClientsUncaught(d, start, salon_id, fails) ==
    LET agg == aggregate(d.booking, ScopedMatch("start_time", start, salon_id),
                         "client_id", 1)
    IN [raised |-> "booking.aggregate" \in fails,
        value |-> IF Len(agg) > 0 THEN Get(agg[1], "rc", 0) ELSE 0]

\* Lines 421-434.  The try/except turns a failing aggregation into 0.
ReturningClients(d, start, salon_id, fails) ==
    IF "booking.aggregate" \in fails
    THEN [raised |-> FALSE, value |-> 0]
    ELSE LET agg == aggregate(d.booking,
                              ScopedMatch("start_time", start, salon_id),
                              "client_id", 1)
         IN [raised |-> FALSE,
             value |-> IF Len(agg) > 0 THEN Get(agg[1], "rc", 0) ELSE 0]

\* analytics_summary, lines 390-442, on store d at clock reading t.
AnalyticsSummary(d, salon_id, period, t, fails) ==
    LET start == WindowStart(period, t)
        revenue == Revenue(d, start, salon_id, fails)
        total_bookings == TotalBookings(d, start, salon_id, fails)
        new_clients == NewClients(d, start, salon_id, fails)
        returning_clients == ReturningClients(d, start, salon_id, fails)
    IN IF \/ revenue.raised
          \/ total_bookings.raised
          \/ new_clients.raised
          \/ returning_clients.raised
       THEN [outcome |-> "error", body |-> ServerError]
       ELSE [outcome |-> "ok",
             body |-> [period |-> period,
                       total_revenue |-> revenue.value,
                       total_bookings |-> total_bookings.value,
                       new_clients |-> new_clients.value,
                       returning_clients |-> returning_clients.value]]

\* The request GET /analytics/summary.  call records the request and the
\* handler's locals now and start.
analytics_summary(salon_id, period, fails, t) ==
    /\ resp = Idle
    /\ t >= now
    /\ now' = t
    /\ resp' = [op |-> "analytics_summary",
                outcome |-> AnalyticsSummary(db, salon_id, period, t, fails).outcome,
                body |-> AnalyticsSummary(db, salon_id, period, t, fails).body,
                call |-> [salon_id |-> salon_id, period |-> period,
                          fails |-> fails, now |-> t,
                          start |-> WindowStart(period, t)]]
    /\ db' = db

\* ------------------------------------------------------------------ admin_metrics

AdminQueries ==
    {"salon.count_documents", "subscription.count_documents.paid",
     "subscription.count_documents.trial", "subscription.find",
     "transaction.find", "booking.distinct"}

AdminFailures == {{}} \cup {{q} : q \in AdminQueries}

NoFilter == [eq |-> <<>>, gte |-> <<>>, isin |-> <<>>]

\* {"status": {"$in": ["active", "past_due"]}}, lines 450 and 455.
PaidFilter ==
    [eq |-> <<>>, gte |-> <<>>, isin |-> [status |-> {"active", "past_due"}]]

\* {"status": "trial"}, line 451.
TrialFilter == [eq |-> [status |-> "trial"], gte |-> <<>>, isin |-> <<>>]

RECURSIVE SumField(_, _)
\* The loops of lines 454-456 and 460-462: the sum of doc.get(field, 0).
SumField(docs, field) ==
    IF docs = <<>> THEN 0
    ELSE Get(Head(docs), field, 0) + SumField(Tail(docs), field)

\* Mrr over every subscription, whatever its status.
MrrOfEveryStatus(d) == SumField(find(d.subscription, NoFilter), "mrr")

\* Lines 453-456.
Mrr(d) == SumField(find(d.subscription, PaidFilter), "mrr")

\* Line 474.
Arr(mrr) == mrr * 12

\* Lines 458-462, at clock reading t.
Revenue30d(d, t) ==
    SumField(find(d.transaction,
                  [eq |-> [status |-> "succeeded"],
                   gte |-> [timestamp |-> t - timedelta(30)],
                   isin |-> <<>>]),
             "amount")

\* DailyActiveSalons counting the bookings, not the distinct salon_id.
DailyActiveBookings(d, t) ==
    count_documents(d.booking,
                    [eq |-> <<>>,
                     gte |-> [created_at |-> t - timedelta(1)],
                     isin |-> <<>>])

\* Lines 464-467, at clock reading t.
DailyActiveSalons(d, t) ==
    Cardinality(distinct(d.booking, "salon_id",
                         [eq |-> <<>>,
                          gte |-> [created_at |-> t - timedelta(1)],
                          isin |-> <<>>]))

\* Lines 448-467: no query of admin_metrics is inside a try.
AdminRaises(fails) == fails \cap AdminQueries # {}

\* admin_metrics, lines 447-477, on store d; _now() is read at t1 (line 459)
\* and again at t2 (line 465).
AdminMetrics(d, t1, t2, fails) ==
    IF AdminRaises(fails)
    THEN [outcome |-> "error", body |-> ServerError]
    ELSE [outcome |-> "ok",
          body |-> [total_salons |-> count_documents(d.salon, NoFilter),
                    active_paid_salons |-> count_documents(d.subscription, PaidFilter),
                    trial_salons |-> count_documents(d.subscription, TrialFilter),
                    mrr |-> Mrr(d),
                    arr |-> Arr(Mrr(d)),
                    revenue_30d |-> Revenue30d(d, t1),
                    daily_active_salons |-> DailyActiveSalons(d, t2)]]

\* The request GET /admin/metrics.
admin_metrics(fails, t1, t2) ==
    /\ resp = Idle
    /\ t1 >= now
    /\ t2 >= t1
    /\ now' = t2
    /\ resp' = [op |-> "admin_metrics",
                outcome |-> AdminMetrics(db, t1, t2, fails).outcome,
                body |-> AdminMetrics(db, t1, t2, fails).body,
                call |-> [fails |-> fails, now30 |-> t1, now1d |-> t2]]
    /\ db' = db

\* ------------------------------------------------------------------ specification

\* status of a transaction body: any str.
StatusInputs == TransactionStatuses \cup {"paid"}

EmptyDb ==
    [transaction |-> <<>>, booking |-> <<>>, client |-> <<>>,
     subscription |-> <<>>, salon |-> <<>>]

Init ==
    /\ now = StartTick
    /\ db = EmptyDb
    /\ resp = Idle

\* The handlers that write documents, as every specification but the
\* clock sweep runs them.
Writes(days) ==
    \/ \E s \in SalonIds, st \in {"succeeded", "paid"},
          t \in ClockReads(now, days) :
          create_transaction(s, 100, st, t)
    \/ \E s \in SalonIds, c \in ClientIds, o \in StartOffsetDays,
          t \in ClockReads(now, days) :
          create_booking(s, c, o, t)
    \/ \E s \in SalonIds, t \in ClockReads(now, days) : create_client(s, t)
    \/ \E ok \in BOOLEAN, t \in ClockReads(now, days) :
          complete_onboarding(ok, t)

\* Every handler; every query of the two rollups succeeds.
Next ==
    \/ Writes(ClockDays)
    \/ \E s \in SalonArgs, p \in Periods, t \in ClockReads(now, ClockDays) :
          analytics_summary(s, p, {}, t)
    \/ \E t1 \in ClockReads(now, ClockDays) :
       \E t2 \in ClockReads(t1, ClockDays) :
          admin_metrics({}, t1, t2)
    \/ deliver

Spec == Init /\ [][Next]_vars

\* Every handler; the queries of the two rollups may fail.
NextFaults ==
    \/ Writes(ClockDays)
    \/ \E s \in {None, "s1"}, p \in {P7d, Pmtd}, f \in SummaryFailures,
          t \in ClockReads(now, ClockDays) :
          analytics_summary(s, p, f, t)
    \/ \E f \in AdminFailures, t \in ClockReads(now, ClockDays) :
          admin_metrics(f, t, t)
    \/ deliver

SpecFaults == Init /\ [][NextFaults]_vars

\* Transactions of every amount and status, and the two rollups over them.
NextRevenue ==
    \/ \E s \in SalonIds, a \in Amounts, st \in StatusInputs,
          t \in ClockReads(now, RevenueClockDays) :
          create_transaction(s, a, st, t)
    \/ \E s \in SalonArgs, p \in Periods, t \in ClockReads(now, RevenueClockDays) :
          analytics_summary(s, p, {}, t)
    \/ \E t1 \in ClockReads(now, RevenueClockDays) :
          admin_metrics({}, t1, t1)
    \/ deliver

SpecRevenue == Init /\ [][NextRevenue]_vars

\* Subscriptions as the billing system leaves them in the store; mrr may be
\* absent from a document.
SubscriptionDocs ==
    [salon_id : {"s1"}, status : SubscriptionStatuses, mrr : {500, 1000, 2000}]
    \cup [salon_id : {"s1"}, status : SubscriptionStatuses]

RECURSIVE SeqsUpTo(_, _)
\* The sequences of at most n elements of S.
SeqsUpTo(S, n) ==
    IF n = 0 THEN {<<>>}
    ELSE LET shorter == SeqsUpTo(S, n - 1)
         IN shorter \cup {Append(q, x) : q \in shorter, x \in S}

InitFleet ==
    /\ now = StartTick
    /\ \E subs \in SeqsUpTo(SubscriptionDocs, MaxSubscriptions) :
          db = [EmptyDb EXCEPT !.subscription = subs]
    /\ resp = Idle

\* The fleet metrics over a store that holds subscriptions of every status.
NextFleet ==
    \/ \E ok \in BOOLEAN : complete_onboarding(ok, now)
    \/ admin_metrics({}, now, now)
    \/ deliver

SpecFleet == InitFleet /\ [][NextFleet]_vars

InitWindow ==
    /\ now \in 0 .. timedelta(MaxSweepDay)
    /\ db = EmptyDb
    /\ resp = Idle

\* The window of every period at every tick of the sweep.
NextWindow ==
    \/ \E s \in {None, "s1"}, p \in Periods : analytics_summary(s, p, {}, now)
    \/ deliver

SpecWindow == InitWindow /\ [][NextWindow]_vars

\* ------------------------------------------------------------------ properties

SummaryOk == resp.op = "analytics_summary" /\ resp.outcome = "ok"

AdminOk == resp.op = "admin_metrics" /\ resp.outcome = "ok"

RECURSIVE SumAmounts(_, _)
\* The sum of amount over the documents of coll at the indices I.
SumAmounts(coll, I) ==
    IF I = {} THEN 0
    ELSE LET i == CHOOSE x \in I : TRUE
         IN coll[i].amount + SumAmounts(coll, I \ {i})

\* The succeeded transactions of the tenants in scope stamped at or after start.
SucceededSince(scope, start) ==
    {i \in DOMAIN db.transaction :
        /\ db.transaction[i].salon_id \in scope
        /\ db.transaction[i].timestamp >= start
        /\ db.transaction[i].status = "succeeded"}

\* C1 as stated: for every tenant id T given to analytics_summary, the empty
\* string included, total_revenue is the sum of amount over the transactions
\* of tenant T with timestamp >= the window start and status succeeded.
C1_RevenueOfEveryTenantId ==
    (SummaryOk /\ resp.call.salon_id # None) =>
        resp.body.total_revenue =
            SumAmounts(db.transaction,
                       SucceededSince({resp.call.salon_id}, resp.call.start))

\* C1 as amended: for every non-empty tenant id T, total_revenue is the sum of
\* amount over the transactions of tenant T with timestamp >= the window start
\* and status succeeded (pending, failed and refunded transactions add
\* nothing); for the empty tenant id it is that sum over the transactions of
\* all tenants.
C1_RevenueOfTenant ==
    /\ (SummaryOk /\ Truthy(resp.call.salon_id)) =>
          resp.body.total_revenue =
              SumAmounts(db.transaction,
                         SucceededSince({resp.call.salon_id}, resp.call.start))
    /\ (SummaryOk /\ resp.call.salon_id = "") =>
          resp.body.total_revenue =
              SumAmounts(db.transaction, SucceededSince(SalonIds, resp.call.start))

\* C1's case: a summary for s1 over a store that holds, inside the window, a
\* succeeded transaction of s1 and a transaction of s1 that did not succeed.
C1_Witness ==
    /\ SummaryOk
    /\ resp.call.salon_id = "s1"
    /\ \E i, j \in DOMAIN db.transaction :
          /\ db.transaction[i].salon_id = "s1"
          /\ db.transaction[i].status = "succeeded"
          /\ db.transaction[i].timestamp >= resp.call.start
          /\ db.transaction[j].salon_id = "s1"
          /\ db.transaction[j].status \in {"pending", "failed", "refunded"}
          /\ db.transaction[j].timestamp >= resp.call.start
    /\ resp.body.total_revenue # 0

\* C10 as stated: total_revenue of analytics_summary and mrr, arr and
\* revenue_30d of admin_metrics are never negative.
C10_AggregatesNonNegative ==
    /\ SummaryOk => resp.body.total_revenue >= 0
    /\ AdminOk =>
          /\ resp.body.mrr >= 0
          /\ resp.body.arr >= 0
          /\ resp.body.revenue_30d >= 0

\* Store d with only the documents of tenant T.
OnlyTenant(d, T) ==
    [d EXCEPT !.transaction = SelectSeq(@, LAMBDA x : x.salon_id = T),
              !.booking = SelectSeq(@, LAMBDA x : x.salon_id = T),
              !.client = SelectSeq(@, LAMBDA x : x.salon_id = T),
              !.subscription = SelectSeq(@, LAMBDA x : x.salon_id = T)]

\* The summary of the last request, had it run on store d.
SummaryOn(d) ==
    AnalyticsSummary(d, resp.call.salon_id, resp.call.period, resp.call.now,
                     resp.call.fails)

\* The indices of the documents of coll of the tenants in scope whose
\* time_field is at or after start.
Since(coll, time_field, scope, start) ==
    {i \in DOMAIN coll : coll[i].salon_id \in scope /\ coll[i][time_field] >= start}

\* The groups of the bookings of scope with start_time at or after start that
\* hold more than one booking, the group of the bookings with no client
\* included.
GroupsOfSeveral(scope, start, groups) ==
    {g \in groups :
        Cardinality({i \in Since(db.booking, "start_time", scope, start) :
                        db.booking[i].client_id = g}) > 1}

\* The four metrics over the documents of the tenants in scope.
MetricsOfScope(scope, start) ==
    [total_revenue |-> SumAmounts(db.transaction, SucceededSince(scope, start)),
     total_bookings |-> Cardinality(Since(db.booking, "created_at", scope, start)),
     new_clients |-> Cardinality(Since(db.client, "created_at", scope, start)),
     returning_clients |-> Cardinality(GroupsOfSeveral(scope, start, ClientIds))]

BodyMetrics ==
    [total_revenue |-> resp.body.total_revenue,
     total_bookings |-> resp.body.total_bookings,
     new_clients |-> resp.body.new_clients,
     returning_clients |-> resp.body.returning_clients]

\* C2 as stated: when the aggregation succeeds, returning_clients is the number
\* of distinct clients with more than one booking with start_time in the
\* window within the tenant scope (no tenant, or a non-empty tenant id).
C2_ReturningAreClients ==
    (SummaryOk /\ resp.call.salon_id # "" /\ "booking.aggregate" \notin resp.call.fails) =>
        resp.body.returning_clients =
            Cardinality(GroupsOfSeveral(
                IF resp.call.salon_id = None THEN SalonIds ELSE {resp.call.salon_id},
                resp.call.start, ClientIds \ {None}))

\* C5 as stated: whenever a tenant id T is given, the empty string included,
\* the summary is the one of the store that holds T's documents only.
C5_ScopedToEveryTenantId ==
    (SummaryOk /\ resp.call.salon_id # None) =>
        resp.body = SummaryOn(OnlyTenant(db, resp.call.salon_id)).body

\* C5 as amended: when a non-empty tenant id T is given, the summary is the
\* one of the store that holds T's documents only, and its four metrics count
\* T's documents; when the tenant id is omitted or empty, they count the
\* documents of all tenants.
C5_TenantScoping ==
    /\ (SummaryOk /\ Truthy(resp.call.salon_id)) =>
          /\ resp.body = SummaryOn(OnlyTenant(db, resp.call.salon_id)).body
          /\ BodyMetrics = MetricsOfScope({resp.call.salon_id}, resp.call.start)
    /\ (SummaryOk /\ ~Truthy(resp.call.salon_id)) =>
          BodyMetrics = MetricsOfScope(SalonIds, resp.call.start)

\* C5's case: a summary for s1 over a store that holds, inside the window, a
\* booking of s1 and a booking of another tenant.
C5_Witness ==
    /\ SummaryOk
    /\ resp.call.salon_id = "s1"
    /\ \E i, j \in DOMAIN db.booking :
          /\ db.booking[i].salon_id = "s1"
          /\ db.booking[j].salon_id = "s2"
          /\ db.booking[i].created_at >= resp.call.start
          /\ db.booking[j].created_at >= resp.call.start
    /\ resp.body.total_bookings = 1

\* C7: daily_active_salons is the number of tenant ids with at least one
\* booking created at or after now minus one day, each counted once.
C7_DailyActiveDistinct ==
    AdminOk =>
        resp.body.daily_active_salons =
            Cardinality({s \in SalonIds :
                \E i \in DOMAIN db.booking :
                    /\ db.booking[i].salon_id = s
                    /\ db.booking[i].created_at >= resp.call.now1d - TicksPerDay})

\* C7's case: two bookings of one tenant created in the last day.
C7_Witness ==
    /\ AdminOk
    /\ Len(db.booking) = 2
    /\ db.booking[1].salon_id = db.booking[2].salon_id
    /\ db.booking[1].created_at >= resp.call.now1d - TicksPerDay
    /\ resp.body.daily_active_salons = 1

\* Store d without the bookings whose start_time is after t.
WithoutBookingsAfter(d, t) ==
    [d EXCEPT !.booking = SelectSeq(@, LAMBDA x : x.start_time <= t)]

\* C9 as stated, for returning_clients: the bookings whose start_time lies in
\* the future at the time of the request add nothing to returning_clients
\* (stated of the stores whose bookings all carry a client reference).
C9_FutureBookingsNotCounted ==
    (SummaryOk /\ \A i \in DOMAIN db.booking : db.booking[i].client_id # None) =>
        resp.body.returning_clients =
            SummaryOn(WithoutBookingsAfter(db, resp.call.now)).body.returning_clients

SummaryMetricKeys ==
    {"period", "total_revenue", "total_bookings", "new_clients", "returning_clients"}

\* C3: when only the grouped aggregation fails, analytics_summary answers a
\* complete success response with returning_clients 0 and with total_revenue,
\* total_bookings and new_clients as they are when the aggregation succeeds.
C3_DegradedReturningClients ==
    (resp.op = "analytics_summary" /\ resp.call.fails = {"booking.aggregate"}) =>
        /\ resp.outcome = "ok"
        /\ DOMAIN resp.body = SummaryMetricKeys
        /\ resp.body.period = resp.call.period
        /\ resp.body.returning_clients = 0
        /\ LET healthy == AnalyticsSummary(db, resp.call.salon_id, resp.call.period,
                                           resp.call.now, {}).body
           IN /\ resp.body.total_revenue = healthy.total_revenue
              /\ resp.body.total_bookings = healthy.total_bookings
              /\ resp.body.new_clients = healthy.new_clients

\* C3's case: the aggregation failed on a store whose healthy summary has a
\* returning client, bookings and revenue or clients to report.
C3_Witness ==
    /\ resp.op = "analytics_summary"
    /\ resp.call.fails = {"booking.aggregate"}
    /\ AnalyticsSummary(db, resp.call.salon_id, resp.call.period,
                        resp.call.now, {}).body.returning_clients = 1
    /\ resp.outcome = "ok"
    /\ resp.body.total_bookings = 2

MustSucceed ==
    {"transaction.find", "booking.count_documents", "client.count_documents"}

\* C4: analytics_summary ends in an error exactly when its transaction scan,
\* booking count or client count fails (a failing aggregation alone is
\* swallowed), admin_metrics ends in an error exactly when any of its queries
\* fails, and an error response carries no metric.
C4_FailuresPropagate ==
    /\ resp.op = "analytics_summary" =>
          /\ resp.outcome = "error" <=> resp.call.fails \cap MustSucceed # {}
          /\ resp.outcome = "error" => DOMAIN resp.body \cap SummaryMetricKeys = {}
    /\ resp.op = "admin_metrics" =>
          /\ resp.outcome = "error" <=> resp.call.fails # {}
          /\ resp.outcome = "error" => "mrr" \notin DOMAIN resp.body

\* C4's case: the client count failed on a store that holds a client, and the
\* request ended in an error.
C4_Witness ==
    /\ resp.op = "analytics_summary"
    /\ resp.call.fails = {"client.count_documents"}
    /\ Len(db.client) > 0
    /\ resp.outcome = "error"

RECURSIVE SumMrr(_, _)
\* The sum of mrr, 0 where it is absent, over the subscriptions at indices I.
SumMrr(subs, I) ==
    IF I = {} THEN 0
    ELSE LET i == CHOOSE x \in I : TRUE
         IN (IF "mrr" \in DOMAIN subs[i] THEN subs[i].mrr ELSE 0)
            + SumMrr(subs, I \ {i})

\* C6: mrr is the sum of the mrr field, 0 where absent, over exactly the
\* subscriptions with status active or past_due, and arr is 12 times mrr.
C6_MrrOfPaidSubscriptions ==
    AdminOk =>
        LET paid == {i \in DOMAIN db.subscription :
                        db.subscription[i].status \in {"active", "past_due"}}
        IN /\ resp.body.mrr = SumMrr(db.subscription, paid)
           /\ resp.body.arr = 12 * SumMrr(db.subscription, paid)

\* C6's case: subscriptions active with mrr 1000, trial with 500 and canceled
\* with 2000 give mrr 1000 and arr 12000.
C6_Witness ==
    /\ AdminOk
    /\ db.subscription =
          <<[salon_id |-> "s1", status |-> "active", mrr |-> 1000],
            [salon_id |-> "s1", status |-> "trial", mrr |-> 500],
            [salon_id |-> "s1", status |-> "canceled", mrr |-> 2000]>>
    /\ resp.body.mrr = 1000
    /\ resp.body.arr = 12000

\* C8: for 7d, 30d and 90d the window starts exactly 7, 30 and 90 days before
\* now; for mtd it starts on day 1 of now's year and month at 00:00:00.
C8_WindowStart ==
    resp.op = "analytics_summary" =>
        /\ resp.call.period = P7d => resp.call.start = resp.call.now - 7 * TicksPerDay
        /\ resp.call.period = P30d => resp.call.start = resp.call.now - 30 * TicksPerDay
        /\ resp.call.period = P90d => resp.call.start = resp.call.now - 90 * TicksPerDay
        /\ resp.call.period = Pmtd =>
              /\ DateOf(resp.call.start).day = 1
              /\ DateOf(resp.call.start).tod = 0
              /\ DateOf(resp.call.start).year = DateOf(resp.call.now).year
              /\ DateOf(resp.call.start).month = DateOf(resp.call.now).month
              /\ resp.call.start <= resp.call.now

\* C8's case: a month-to-date summary asked at midday of 29 February.
C8_Witness ==
    /\ resp.op = "analytics_summary"
    /\ resp.call.period = Pmtd
    /\ DateOf(resp.call.now).month = 2
    /\ DateOf(resp.call.now).day = 29
    /\ DateOf(resp.call.now).tod # 0
    /\ resp.call.start = resp.call.now - 28 * TicksPerDay - DateOf(resp.call.now).tod

\* C11 as stated: over a store in which every client has at most one booking
\* with start_time in the window within the tenant scope, returning_clients
\* is 0 however many in-window bookings without a client reference exist.
C11_NoClientNoReturning ==
    LET scope == IF Truthy(resp.call.salon_id) THEN {resp.call.salon_id}
                 ELSE SalonIds
    IN (/\ SummaryOk
        /\ "booking.aggregate" \notin resp.call.fails
        /\ GroupsOfSeveral(scope, resp.call.start, ClientIds \ {None}) = {}) =>
           resp.body.returning_clients = 0

=============================================================================
